---------------------------- MODULE Spec2Model ----------------------------
(***************************************************************************)
(* Model of pkg/services/ngalert/notifier/channels/template_data.go:       *)
(* extendAlert / ExtendData (alert enrichment, URL synthesis, removal of   *)
(* private labels and annotations) and the render closure returned by      *)
(* TmplText (shared error slot).                                           *)
(*                                                                         *)
(* A Go string is modelled as a sequence of one-character strings, so that *)
(* HasPrefix, HasSuffix, sort.Strings, path.Join, url.Parse, URL.String    *)
(* and url.QueryEscape are computed character by character.  A template.KV *)
(* (map[string]string) is a function whose domain is the set of its keys.  *)
(***************************************************************************)
EXTENDS Integers, Sequences, FiniteSets, TLC

VARIABLES
    data,       \* the *template.Data handed to ExtendData
    pc,         \* position of ExtendData: "loop", "returned" ("off" under SpecRender)
    idx,        \* index of the next element of data.Alerts the loop visits
    alerts,     \* ExtendData's local slice `alerts`
    result,     \* what ExtendData returned: [data, err], data being <<>> (nil) or <<d>>
    tmplErr,    \* *tmplErr, the error slot shared with the caller of TmplText
    serialized, \* whether the caller serializes its calls to the render closure
    thr,        \* per goroutine: position and locals of its call to the closure
    calls,      \* completed calls to the closure, in order of return
    executions  \* invocations of tmpl.ExecuteTextString, in order

extVars == <<data, pc, idx, alerts, result>>
tmplVars == <<tmplErr, serialized, thr, calls, executions>>
vars == <<data, pc, idx, alerts, result, tmplErr, serialized, thr, calls, executions>>

Nil == "nil"

----------------------------------------------------------------------------
(* Bounds *)

MaxAlerts == 2

MaxCalls == 3

----------------------------------------------------------------------------
(* Go strings *)

Printable ==
    <<" ","!","\"","#","$","%","&","'","(",")","*","+",",","-",".","/",
      "0","1","2","3","4","5","6","7","8","9",":",";","<","=",">","?",
      "@","A","B","C","D","E","F","G","H","I","J","K","L","M","N","O",
      "P","Q","R","S","T","U","V","W","X","Y","Z","[","\\","]","^","_",
      "grave","a","b","c","d","e","f","g","h","i","j","k","l","m","n","o",
      "p","q","r","s","t","u","v","w","x","y","z","{","|","}","~">>

\* the control bytes 0x00..0x1f, held by name but for the tab
ControlBytes ==
    <<"x00","x01","x02","x03","x04","x05","x06","x07","x08","\t","x0A","x0B",
      "x0C","x0D","x0E","x0F","x10","x11","x12","x13","x14","x15","x16","x17",
      "x18","x19","x1A","x1B","x1C","x1D","x1E","x1F">>

\* the bytes 0x80..0xff, held by name
HighBytes ==
    <<"x80","x81","x82","x83","x84","x85","x86","x87","x88","x89","x8A","x8B",
      "x8C","x8D","x8E","x8F","x90","x91","x92","x93","x94","x95","x96","x97",
      "x98","x99","x9A","x9B","x9C","x9D","x9E","x9F","xA0","xA1","xA2","xA3",
      "xA4","xA5","xA6","xA7","xA8","xA9","xAA","xAB","xAC","xAD","xAE","xAF",
      "xB0","xB1","xB2","xB3","xB4","xB5","xB6","xB7","xB8","xB9","xBA","xBB",
      "xBC","xBD","xBE","xBF","xC0","xC1","xC2","xC3","xC4","xC5","xC6","xC7",
      "xC8","xC9","xCA","xCB","xCC","xCD","xCE","xCF","xD0","xD1","xD2","xD3",
      "xD4","xD5","xD6","xD7","xD8","xD9","xDA","xDB","xDC","xDD","xDE","xDF",
      "xE0","xE1","xE2","xE3","xE4","xE5","xE6","xE7","xE8","xE9","xEA","xEB",
      "xEC","xED","xEE","xEF","xF0","xF1","xF2","xF3","xF4","xF5","xF6","xF7",
      "xF8","xF9","xFA","xFB","xFC","xFD","xFE","xFF">>

\* every byte, AllBytes[b + 1] being the byte b (0x7f held by name)
AllBytes == ControlBytes \o Printable \o <<"x7F">> \o HighBytes

Chars == {AllBytes[i] : i \in 1..Len(AllBytes)}

\* the byte value of each character
ByteTable == [c \in Chars |-> (CHOOSE i \in 1..Len(AllBytes) : AllBytes[i] = c) - 1]

CharOf(b) == AllBytes[b + 1]

Byte(c) == ByteTable[c]

AlphaChars == {c \in Chars : (Byte(c) >= 97 /\ Byte(c) <= 122) \/ (Byte(c) >= 65 /\ Byte(c) <= 90)}

DigitChars == {c \in Chars : Byte(c) >= 48 /\ Byte(c) <= 57}

IsAlpha(c) == c \in AlphaChars

IsDigit(c) == c \in DigitChars

\* s < t on strings: bytewise lexicographic
RECURSIVE LessFrom(_, _, _)
LessFrom(s, t, i) ==
    IF i > Len(t) THEN FALSE
    ELSE IF i > Len(s) THEN TRUE
    ELSE IF Byte(s[i]) < Byte(t[i]) THEN TRUE
    ELSE IF Byte(s[i]) > Byte(t[i]) THEN FALSE
    ELSE LessFrom(s, t, i + 1)

StrLess(s, t) == LessFrom(s, t, 1)

HasPrefix(s, prefix) ==
    Len(s) >= Len(prefix) /\ SubSeq(s, 1, Len(prefix)) = prefix

HasSuffix(s, suffix) ==
    Len(s) >= Len(suffix) /\ SubSeq(s, Len(s) - Len(suffix) + 1, Len(s)) = suffix

Contains(s, c) == \E i \in 1..Len(s) : s[i] = c

\* index of the first occurrence of c in s, 0 when there is none
IndexOf(s, c) ==
    IF Contains(s, c) THEN CHOOSE i \in 1..Len(s) : s[i] = c /\ \A j \in 1..(i - 1) : s[j] # c
    ELSE 0

Count(s, c) == Cardinality({i \in 1..Len(s) : s[i] = c})

\* index of the last occurrence of c in s, 0 when there is none
LastIndexOf(s, c) ==
    IF Contains(s, c) THEN CHOOSE i \in 1..Len(s) : s[i] = c /\ \A j \in (i + 1)..Len(s) : s[j] # c
    ELSE 0

\* whether sub occurs in s at index i
OccursAt(s, sub, i) == i + Len(sub) - 1 <= Len(s) /\ SubSeq(s, i, i + Len(sub) - 1) = sub

\* index of the first occurrence of sub in s, 0 when there is none
IndexOfSeq(s, sub) ==
    IF \E i \in 1..Len(s) : OccursAt(s, sub, i)
    THEN CHOOSE i \in 1..Len(s) : OccursAt(s, sub, i) /\ \A j \in 1..(i - 1) : ~OccursAt(s, sub, j)
    ELSE 0

\* strings.Join(elems, sep)
RECURSIVE JoinFrom(_, _, _)
JoinFrom(elems, sep, i) ==
    IF i > Len(elems) THEN <<>>
    ELSE IF i = Len(elems) THEN elems[i]
    ELSE elems[i] \o sep \o JoinFrom(elems, sep, i + 1)

StringsJoin(elems, sep) == JoinFrom(elems, sep, 1)

\* the pieces of s between the occurrences of the character c
RECURSIVE SplitFrom(_, _, _, _)
SplitFrom(s, c, i, cur) ==
    IF i > Len(s) THEN <<cur>>
    ELSE IF s[i] = c THEN <<cur>> \o SplitFrom(s, c, i + 1, <<>>)
    ELSE SplitFrom(s, c, i + 1, Append(cur, s[i]))

Split(s, c) == SplitFrom(s, c, 1, <<>>)

\* sort.Strings: the elements in increasing order (insertion sort)
RECURSIVE InsertSorted(_, _)
InsertSorted(sorted, s) ==
    IF sorted = <<>> THEN <<s>>
    ELSE IF StrLess(s, Head(sorted)) THEN <<s>> \o sorted
    ELSE <<Head(sorted)>> \o InsertSorted(Tail(sorted), s)

RECURSIVE SortFrom(_, _, _)
SortFrom(elems, i, sorted) ==
    IF i > Len(elems) THEN sorted
    ELSE SortFrom(elems, i + 1, InsertSorted(sorted, elems[i]))

\* a slice left in the order of the appends
Unsorted(elems) == elems

SortStrings(elems) == SortFrom(elems, 1, <<>>)

\* the orders in which a range over a map with these keys may visit them
Orders(keys) ==
    {o \in [1..Cardinality(keys) -> keys] : \A k \in keys : \E i \in DOMAIN o : o[i] = k}

----------------------------------------------------------------------------
(* package path *)

Slash == <<"/">>

DotDot == <<".", ".">>

\* path.Clean's pass over the elements of a path: empty and "." elements are
\* dropped, ".." removes the element before it (at the root it is dropped,
\* in a relative path with nothing left to remove it is kept)
RECURSIVE CleanElems(_, _, _, _)
CleanElems(elems, i, rooted, out) ==
    IF i > Len(elems) THEN out
    ELSE IF elems[i] = <<>> \/ elems[i] = <<".">> THEN CleanElems(elems, i + 1, rooted, out)
    ELSE IF elems[i] = DotDot THEN
        IF Len(out) > 0 /\ out[Len(out)] # DotDot
            THEN CleanElems(elems, i + 1, rooted, SubSeq(out, 1, Len(out) - 1))
        ELSE IF rooted THEN CleanElems(elems, i + 1, rooted, out)
        ELSE CleanElems(elems, i + 1, rooted, Append(out, DotDot))
    ELSE CleanElems(elems, i + 1, rooted, Append(out, elems[i]))

\* the cleaned path, "." when nothing is left of it
orDot(r) == IF r = <<>> THEN <<".">> ELSE r

\* path.Clean
pathClean(p) ==
    IF p = <<>> THEN <<".">>
    ELSE orDot((IF p[1] = "/" THEN Slash ELSE <<>>)
               \o StringsJoin(CleanElems(Split(p, "/"), 1, p[1] = "/", <<>>), Slash))

\* path.Join: the non-empty elements joined by "/", cleaned; "" when there is none
pathJoin(elems) ==
    LET nonEmpty == SelectSeq(elems, LAMBDA e : e # <<>>)
    IN  IF nonEmpty = <<>> THEN <<>> ELSE pathClean(StringsJoin(nonEmpty, Slash))

----------------------------------------------------------------------------
(* package net/url (parseHost as up to Go 1.25: the port is what follows   *)
(* the last colon, a bracketed host is not checked to be an IP address)    *)

HexDigits == <<"0","1","2","3","4","5","6","7","8","9","A","B","C","D","E","F">>

PercentTable ==
    [c \in Chars |-> <<"%", HexDigits[(Byte(c) \div 16) + 1], HexDigits[(Byte(c) % 16) + 1]>>]

\* "%" and the two upper-case hex digits of the byte
PercentEncode(c) == PercentTable[c]

AlnumChars == AlphaChars \cup DigitChars

HexChars ==
    DigitChars \cup {c \in Chars : (Byte(c) >= 97 /\ Byte(c) <= 102) \/ (Byte(c) >= 65 /\ Byte(c) <= 70)}

\* ishex
IsHex(c) == c \in HexChars

\* unhex
Unhex(c) ==
    IF IsDigit(c) THEN Byte(c) - 48
    ELSE IF Byte(c) >= 97 THEN Byte(c) - 97 + 10
    ELSE Byte(c) - 65 + 10

\* the encoding modes
EncodePath == "encodePath"

EncodeHost == "encodeHost"

EncodeZone == "encodeZone"

EncodeUserPassword == "encodeUserPassword"

EncodeQueryComponent == "encodeQueryComponent"

EncodeFragment == "encodeFragment"

HostChars == {"!", "$", "&", "'", "(", ")", "*", "+", ",", ";", "=", ":", "[", "]", "<", ">", "\""}

MarkChars == {"-", "_", ".", "~"}

ReservedChars == {"$", "&", "+", ",", "/", ":", ";", "=", "?", "@"}

\* shouldEscape(c, mode)
ShouldEscape(c, mode) ==
    IF c \in AlnumChars THEN FALSE
    ELSE IF mode \in {EncodeHost, EncodeZone} /\ c \in HostChars THEN FALSE
    ELSE IF c \in MarkChars THEN FALSE
    ELSE IF c \in ReservedChars /\ mode = EncodePath THEN c = "?"
    ELSE IF c \in ReservedChars /\ mode = EncodeUserPassword THEN c \in {"@", "/", "?", ":"}
    ELSE IF c \in ReservedChars /\ mode = EncodeQueryComponent THEN TRUE
    ELSE IF c \in ReservedChars /\ mode = EncodeFragment THEN FALSE
    ELSE IF mode = EncodeFragment /\ c \in {"!", "(", ")", "*"} THEN FALSE
    ELSE TRUE

\* escape(s, mode): a space of a query component becomes "+"
RECURSIVE EscapeFrom(_, _, _)
EscapeFrom(s, mode, i) ==
    IF i > Len(s) THEN <<>>
    ELSE (IF ShouldEscape(s[i], mode)
          THEN (IF s[i] = " " /\ mode = EncodeQueryComponent THEN <<"+">>
                ELSE PercentEncode(s[i]))
          ELSE <<s[i]>>)
         \o EscapeFrom(s, mode, i + 1)

Escape(s, mode) == EscapeFrom(s, mode, 1)

\* url.QueryEscape
QueryEscape(s) == Escape(s, EncodeQueryComponent)

UnescapeError == [ok |-> FALSE, s |-> <<>>]

\* the byte a "%xx" at index i of s stands for
EscapedByte(s, i) == 16 * Unhex(s[i + 1]) + Unhex(s[i + 2])

\* unescape: whether the "%xx" at index i of s is refused in this mode
BadEscape(s, mode, i) ==
    \/ i + 2 > Len(s)
    \/ ~IsHex(s[i + 1])
    \/ ~IsHex(s[i + 2])
    \/ mode = EncodeHost /\ Unhex(s[i + 1]) < 8 /\ SubSeq(s, i, i + 2) # <<"%", "2", "5">>
    \/ mode = EncodeZone /\ SubSeq(s, i, i + 2) # <<"%", "2", "5">>
       /\ EscapedByte(s, i) # 32 /\ ShouldEscape(CharOf(EscapedByte(s, i)), EncodeHost)

\* unescape(s, mode), for the modes other than the query component: [ok, s]
RECURSIVE UnescapeFrom(_, _, _, _)
UnescapeFrom(s, mode, i, acc) ==
    IF i > Len(s) THEN [ok |-> TRUE, s |-> acc]
    ELSE IF s[i] = "%" THEN
        IF BadEscape(s, mode, i) THEN UnescapeError
        ELSE UnescapeFrom(s, mode, i + 3, Append(acc, CharOf(EscapedByte(s, i))))
    ELSE IF mode \in {EncodeHost, EncodeZone} /\ Byte(s[i]) < 128 /\ ShouldEscape(s[i], mode)
        THEN UnescapeError
    ELSE UnescapeFrom(s, mode, i + 1, Append(acc, s[i]))

Unescape(s, mode) == UnescapeFrom(s, mode, 1, <<>>)

ValidEncodedChars ==
    {"!", "$", "&", "'", "(", ")", "*", "+", ",", ";", "=", ":", "@", "[", "]", "%"}

\* validEncoded(s, mode)
validEncoded(s, mode) ==
    \A i \in 1..Len(s) : s[i] \in ValidEncodedChars \/ ~ShouldEscape(s[i], mode)

\* stringContainsCTLByte: a byte below 0x20, or 0x7f
CTLChars == {c \in Chars : Byte(c) < 32 \/ Byte(c) = 127}

ContainsCTLByte(s) == \E i \in 1..Len(s) : s[i] \in CTLChars

\* getScheme: [ok, scheme, rest]; a leading ":" is "missing protocol scheme"
RECURSIVE GetSchemeFrom(_, _)
GetSchemeFrom(rawURL, i) ==
    IF i > Len(rawURL) THEN [ok |-> TRUE, scheme |-> <<>>, rest |-> rawURL]
    ELSE LET c == rawURL[i] IN
         IF IsAlpha(c) THEN GetSchemeFrom(rawURL, i + 1)
         ELSE IF IsDigit(c) \/ c \in {"+", "-", "."} THEN
             IF i = 1 THEN [ok |-> TRUE, scheme |-> <<>>, rest |-> rawURL]
             ELSE GetSchemeFrom(rawURL, i + 1)
         ELSE IF c = ":" THEN
             IF i = 1 THEN [ok |-> FALSE, scheme |-> <<>>, rest |-> <<>>]
             ELSE [ok |-> TRUE, scheme |-> SubSeq(rawURL, 1, i - 1),
                   rest |-> SubSeq(rawURL, i + 1, Len(rawURL))]
         ELSE [ok |-> TRUE, scheme |-> <<>>, rest |-> rawURL]

ToLowerChar(c) ==
    IF Byte(c) >= 65 /\ Byte(c) <= 90 THEN CharOf(Byte(c) + 32) ELSE c

ToLower(s) == [i \in 1..Len(s) |-> ToLowerChar(s[i])]

\* a url.URL; User is <<>> (nil) or <<[username, password, passwordSet]>>
NoURL == [Scheme |-> <<>>, Opaque |-> <<>>, User |-> <<>>, Host |-> <<>>,
          Path |-> <<>>, RawPath |-> <<>>, OmitHost |-> FALSE, ForceQuery |-> FALSE,
          RawQuery |-> <<>>, Fragment |-> <<>>, RawFragment |-> <<>>]

ParseError == [ok |-> FALSE, u |-> NoURL]

\* validOptionalPort: empty, or ":" and digits
validOptionalPort(port) ==
    port = <<>> \/ (port[1] = ":" /\ \A i \in 2..Len(port) : IsDigit(port[i]))

\* the three parts of a bracketed host with a zone put together
joinHost(host1, host2, host3) ==
    IF host1.ok /\ host2.ok /\ host3.ok
    THEN [ok |-> TRUE, s |-> host1.s \o host2.s \o host3.s]
    ELSE UnescapeError

\* parseHost, a host that begins with "[": close is the index of the last
\* "]", zone the index of the first "%25" before it
zoneHost(host, close, zone) ==
    IF zone = 0 THEN Unescape(host, EncodeHost)
    ELSE joinHost(Unescape(SubSeq(host, 1, zone - 1), EncodeHost),
                  Unescape(SubSeq(host, zone, close - 1), EncodeZone),
                  Unescape(SubSeq(host, close, Len(host)), EncodeHost))

bracketHost(host, close) ==
    IF close = 0 THEN UnescapeError
    ELSE IF ~validOptionalPort(SubSeq(host, close + 1, Len(host))) THEN UnescapeError
    ELSE zoneHost(host, close, IndexOfSeq(SubSeq(host, 1, close - 1), <<"%", "2", "5">>))

\* parseHost, a host that does not begin with "[": colon is the index of its
\* last ":"
plainHost(host, colon) ==
    IF colon # 0 /\ ~validOptionalPort(SubSeq(host, colon, Len(host))) THEN UnescapeError
    ELSE Unescape(host, EncodeHost)

\* parseHost: [ok, s]
parseHost(host) ==
    IF HasPrefix(host, <<"[">>) THEN bracketHost(host, LastIndexOf(host, "]"))
    ELSE plainHost(host, LastIndexOf(host, ":"))

ValidUserinfoChars ==
    AlnumChars \cup {"-", ".", "_", ":", "~", "!", "$", "&", "'", "(", ")", "*", "+", ",",
                     ";", "=", "%", "@"}

\* validUserinfo
validUserinfo(s) == \A i \in 1..Len(s) : s[i] \in ValidUserinfoChars

AuthorityError == [ok |-> FALSE, User |-> <<>>, Host |-> <<>>]

\* url.User and url.UserPassword from the unescaped parts
userOf(host, username, password, passwordSet) ==
    IF ~username.ok \/ ~password.ok THEN AuthorityError
    ELSE [ok |-> TRUE, Host |-> host,
          User |-> <<[username |-> username.s, password |-> password.s,
                      passwordSet |-> passwordSet]>>]

\* parseAuthority, the user information before the last "@"
parseUserinfo(host, userinfo, colon) ==
    IF ~validUserinfo(userinfo) THEN AuthorityError
    ELSE IF colon = 0
        THEN userOf(host, Unescape(userinfo, EncodeUserPassword),
                    [ok |-> TRUE, s |-> <<>>], FALSE)
    ELSE userOf(host, Unescape(SubSeq(userinfo, 1, colon - 1), EncodeUserPassword),
                Unescape(SubSeq(userinfo, colon + 1, Len(userinfo)), EncodeUserPassword),
                TRUE)

authorityWith(authority, at, host) ==
    IF ~host.ok THEN AuthorityError
    ELSE IF at = 0 THEN [ok |-> TRUE, User |-> <<>>, Host |-> host.s]
    ELSE parseUserinfo(host.s, SubSeq(authority, 1, at - 1),
                       IndexOf(SubSeq(authority, 1, at - 1), ":"))

authorityAt(authority, at) ==
    authorityWith(authority, at, parseHost(SubSeq(authority, at + 1, Len(authority))))

\* parseAuthority: [ok, User, Host]
parseAuthority(authority) == authorityAt(authority, LastIndexOf(authority, "@"))

\* URL.setPath, given the unescaped path: RawPath is kept when it is not the
\* default encoding of Path
pathSet(u, p, path) ==
    IF ~path.ok THEN ParseError
    ELSE [ok |-> TRUE,
          u |-> [u EXCEPT !.Path = path.s,
                          !.RawPath = IF Escape(path.s, EncodePath) = p THEN <<>> ELSE p]]

\* URL.setPath: [ok, u]
setPath(u, p) == pathSet(u, p, Unescape(p, EncodePath))

\* parse: the query is cut off what follows the scheme; a lone trailing "?"
\* sets ForceQuery
splitQuery(rest) ==
    IF HasSuffix(rest, <<"?">>) /\ Count(rest, "?") = 1
    THEN [rest |-> SubSeq(rest, 1, Len(rest) - 1), ForceQuery |-> TRUE, RawQuery |-> <<>>]
    ELSE IF ~Contains(rest, "?")
    THEN [rest |-> rest, ForceQuery |-> FALSE, RawQuery |-> <<>>]
    ELSE [rest |-> SubSeq(rest, 1, IndexOf(rest, "?") - 1), ForceQuery |-> FALSE,
          RawQuery |-> SubSeq(rest, IndexOf(rest, "?") + 1, Len(rest))]

\* parse: the user and host of the authority, then the path after it
authoritySet(u, a, rest) ==
    IF ~a.ok THEN ParseError
    ELSE setPath([u EXCEPT !.User = a.User, !.Host = a.Host], rest)

\* parse: "//authority" and the path after it; slash is the index of the
\* first "/" of what follows the "//"
splitAuthority(u, authority, slash) ==
    IF slash = 0 THEN authoritySet(u, parseAuthority(authority), <<>>)
    ELSE authoritySet(u, parseAuthority(SubSeq(authority, 1, slash - 1)),
                      SubSeq(authority, slash, Len(authority)))

\* parse, after the scheme and the query are split off: a rootless path after
\* a scheme is opaque; without a scheme its first segment may hold no colon;
\* a rooted path after a scheme has the host left out
parseHier(u, rest) ==
    IF ~HasPrefix(rest, Slash) /\ u.Scheme # <<>>
        THEN [ok |-> TRUE, u |-> [u EXCEPT !.Opaque = rest]]
    ELSE IF ~HasPrefix(rest, Slash) /\ Contains(Split(rest, "/")[1], ":")
        THEN ParseError
    ELSE IF (u.Scheme # <<>> \/ ~HasPrefix(rest, <<"/", "/", "/">>))
            /\ HasPrefix(rest, <<"/", "/">>)
        THEN splitAuthority(u, SubSeq(rest, 3, Len(rest)),
                            IndexOf(SubSeq(rest, 3, Len(rest)), "/"))
    ELSE IF u.Scheme # <<>> /\ HasPrefix(rest, Slash)
        THEN setPath([u EXCEPT !.OmitHost = TRUE], rest)
    ELSE setPath(u, rest)

parseQuery(scheme, q) ==
    parseHier([NoURL EXCEPT !.Scheme = scheme, !.ForceQuery = q.ForceQuery,
                            !.RawQuery = q.RawQuery],
              q.rest)

parseScheme(gs) ==
    IF ~gs.ok THEN ParseError ELSE parseQuery(ToLower(gs.scheme), splitQuery(gs.rest))

\* parse(rawURL, false): [ok, u]
parse(rawURL) ==
    IF ContainsCTLByte(rawURL) THEN ParseError
    ELSE IF rawURL = <<"*">> THEN [ok |-> TRUE, u |-> [NoURL EXCEPT !.Path = <<"*">>]]
    ELSE parseScheme(GetSchemeFrom(rawURL, 1))

\* URL.setFragment, given the unescaped fragment
fragmentSet(r, f, frag) ==
    IF ~frag.ok THEN ParseError
    ELSE [ok |-> TRUE,
          u |-> [r.u EXCEPT !.Fragment = frag.s,
                            !.RawFragment = IF Escape(frag.s, EncodeFragment) = f
                                            THEN <<>> ELSE f]]

\* Parse, after what precedes the "#" is parsed
parseFragment(r, f) ==
    IF ~r.ok THEN ParseError
    ELSE IF f = <<>> THEN r
    ELSE fragmentSet(r, f, Unescape(f, EncodeFragment))

\* Parse: the fragment is cut off at hash, the index of the first "#"
parseCut(rawURL, hash) ==
    IF hash = 0 THEN parseFragment(parse(rawURL), <<>>)
    ELSE parseFragment(parse(SubSeq(rawURL, 1, hash - 1)),
                       SubSeq(rawURL, hash + 1, Len(rawURL)))

\* url.Parse: [ok, u]
urlParse(rawURL) == parseCut(rawURL, IndexOf(rawURL, "#"))

\* whether raw is a valid encoding, in this mode, of the string s
EncodingOf(raw, s, mode) ==
    /\ raw # <<>>
    /\ validEncoded(raw, mode)
    /\ Unescape(raw, mode) = [ok |-> TRUE, s |-> s]

\* URL.EscapedPath: RawPath when it is a valid encoding of Path
EscapedPath(u) ==
    IF EncodingOf(u.RawPath, u.Path, EncodePath) THEN u.RawPath
    ELSE IF u.Path = <<"*">> THEN <<"*">>
    ELSE Escape(u.Path, EncodePath)

\* URL.EscapedFragment: RawFragment when it is a valid encoding of Fragment
EscapedFragment(u) ==
    IF EncodingOf(u.RawFragment, u.Fragment, EncodeFragment) THEN u.RawFragment
    ELSE Escape(u.Fragment, EncodeFragment)

\* Userinfo.String
userString(user) ==
    Escape(user.username, EncodeUserPassword)
    \o (IF user.passwordSet THEN <<":">> \o Escape(user.password, EncodeUserPassword)
        ELSE <<>>)

\* URL.String: "//", the user and the host
authorityString(u) ==
    (IF u.Host # <<>> \/ u.Path # <<>> \/ u.User # <<>> THEN <<"/", "/">> ELSE <<>>)
    \o (IF u.User # <<>> THEN userString(u.User[1]) \o <<"@">> ELSE <<>>)
    \o (IF u.Host # <<>> THEN Escape(u.Host, EncodeHost) ELSE <<>>)

\* URL.String: what is written before the path
schemeAndHost(u) ==
    (IF u.Scheme # <<>> THEN u.Scheme \o <<":">> ELSE <<>>)
    \o (IF u.Scheme # <<>> \/ u.Host # <<>> \/ u.User # <<>>
        THEN (IF u.OmitHost /\ u.Host = <<>> /\ u.User = <<>> THEN <<>>
              ELSE authorityString(u))
        ELSE <<>>)

\* URL.String: the path after what was written; a "/" is put between a host
\* and a rootless path, "./" before a first segment with a colon when nothing
\* was written
writePath(u, written, escaped) ==
    written
    \o (IF escaped # <<>> /\ escaped[1] # "/" /\ u.Host # <<>> THEN Slash ELSE <<>>)
    \o (IF written = <<>> /\ ~(escaped # <<>> /\ escaped[1] # "/" /\ u.Host # <<>>)
           /\ Contains(Split(escaped, "/")[1], ":")
        THEN <<".", "/">> ELSE <<>>)
    \o escaped

\* URL.String
urlString(u) ==
    (IF u.Opaque # <<>>
     THEN (IF u.Scheme # <<>> THEN u.Scheme \o <<":">> ELSE <<>>) \o u.Opaque
     ELSE writePath(u, schemeAndHost(u), EscapedPath(u)))
    \o (IF u.ForceQuery \/ u.RawQuery # <<>> THEN <<"?">> \o u.RawQuery ELSE <<>>)
    \o (IF u.Fragment # <<>> THEN <<"#">> \o EscapedFragment(u) ELSE <<>>)

----------------------------------------------------------------------------
(* template_data.go: private keys, extendAlert *)

\* the test of removePrivateItems and of the matchers loop
PrivateKey(key) == HasPrefix(key, <<"_", "_">>) /\ HasSuffix(key, <<"_", "_">>)

\* template.KV.Remove: a new map without the given keys
Remove(kv, keys) == [k \in (DOMAIN kv) \ keys |-> kv[k]]

\* kv[key], the empty string when the key is absent
Get(kv, key) == IF key \in DOMAIN kv THEN kv[key] ELSE <<>>

RECURSIVE removeFrom(_, _, _)
removeFrom(kv, order, i) ==
    IF i > Len(order) THEN kv
    ELSE removeFrom(IF PrivateKey(order[i]) THEN Remove(kv, {order[i]}) ELSE kv,
                    order, i + 1)

\* the maps handed back as they came
keepPrivateItems(kv, order) == kv

\* removePrivateItems; order is the order in which the range visits kv's keys
removePrivateItems(kv, order) == removeFrom(kv, order, 1)

DashboardUidKey == <<"_","_","d","a","s","h","b","o","a","r","d","U","i","d","_","_">>

PanelIdKey == <<"_","_","p","a","n","e","l","I","d","_","_">>

ErrParse == "failed to parse external URL"

RECURSIVE matchersFrom(_, _, _)
matchersFrom(labels, order, i) ==
    IF i > Len(order) THEN <<>>
    ELSE (IF ~PrivateKey(order[i])
          THEN <<order[i] \o <<"=">> \o labels[order[i]]>>
          ELSE <<>>)
         \o matchersFrom(labels, order, i + 1)

\* the slice `matchers` after the loop over alert.Labels and sort.Strings
sortedMatchers(labels, order) == SortStrings(matchersFrom(labels, order, 1))

NoURLs == [err |-> Nil, DashboardURL |-> <<>>, PanelURL |-> <<>>, SilenceURL |-> <<>>]

\* the dashboard id read from the labels instead of the annotations
dashboardUidFromLabels(alert) == Get(alert.Labels, DashboardUidKey)

\* dashboardUid := alert.Annotations["__dashboardUid__"]
dashboardUidOf(alert) == Get(alert.Annotations, DashboardUidKey)

\* u.Path = path.Join(externalPath, "/d/", dashboardUid), for a dashboard id
withDashboard(u, dashboardUid) ==
    IF Len(dashboardUid) > 0
    THEN [u EXCEPT !.Path = pathJoin(<<u.Path, <<"/","d","/">>, dashboardUid>>)]
    ELSE u

\* a panel id taken without a dashboard id
panelSetAlone(dashboardUid, panelId) == Len(panelId) > 0

\* the branch of a panel id lies inside the branch of a dashboard id
panelSet(dashboardUid, panelId) == Len(dashboardUid) > 0 /\ Len(panelId) > 0

\* u.RawQuery = "viewPanel=" + panelId; u already carries the dashboard path
withPanel(u, dashboardUid, panelId) ==
    IF panelSet(dashboardUid, panelId)
    THEN [u EXCEPT !.RawQuery = <<"v","i","e","w","P","a","n","e","l","=">> \o panelId]
    ELSE u

\* the silence URL, written from the same u after the dashboard and panel
\* assignments: path and query are overwritten
silenceURL(u, externalPath, matchers) ==
    urlString([u EXCEPT
        !.Path = pathJoin(<<externalPath,
                            <<"/","a","l","e","r","t","i","n","g","/","s","i","l","e","n","c","e","/","n","e","w">>>>),
        !.RawQuery = <<"a","l","e","r","t","m","a","n","a","g","e","r","=","g","r","a","f","a","n","a","&","m","a","t","c","h","e","r","s","=">>
                     \o QueryEscape(StringsJoin(matchers, <<",">>))])

\* the URLs, given u after the dashboard assignment (uDash) and after the
\* panel assignment (uPanel)
urlsFrom(externalPath, uDash, uPanel, dashboardUid, panelId, matchers) ==
    [err |-> Nil,
     DashboardURL |-> IF Len(dashboardUid) > 0 THEN urlString(uDash) ELSE <<>>,
     PanelURL |-> IF panelSet(dashboardUid, panelId) THEN urlString(uPanel) ELSE <<>>,
     SilenceURL |-> silenceURL(uPanel, externalPath, matchers)]

urlsWith(u, dashboardUid, panelId, matchers) ==
    urlsFrom(u.Path,
             withDashboard(u, dashboardUid),
             withPanel(withDashboard(u, dashboardUid), dashboardUid, panelId),
             dashboardUid, panelId, matchers)

\* the three URLs of extendAlert for a parsed base URL u
grafanaURLs(alert, u, order) ==
    urlsWith(u, dashboardUidOf(alert), Get(alert.Annotations, PanelIdKey),
             sortedMatchers(alert.Labels, order))

\* the URLs, or the error of a base URL that does not parse
synthesizeParsed(alert, parsed, order) ==
    IF ~parsed.ok THEN [NoURLs EXCEPT !.err = ErrParse]
    ELSE grafanaURLs(alert, parsed.u, order)

\* the URLs synthesized without the test of the base URL's length
synthesizeUnguarded(alert, externalURL, order) ==
    synthesizeParsed(alert, urlParse(externalURL), order)

\* the block `if len(externalURL) > 0 { ... }` of extendAlert
synthesize(alert, externalURL, order) ==
    IF Len(externalURL) > 0
    THEN synthesizeParsed(alert, urlParse(externalURL), order)
    ELSE NoURLs

\* the extended alert, private items removed after the URLs were built
extendWith(alert, urls, order) ==
    IF urls.err # Nil THEN [err |-> urls.err, alert |-> <<>>]
    ELSE [err |-> Nil,
          alert |-> <<[Status |-> alert.Status,
                       Labels |-> removePrivateItems(alert.Labels, order.labels),
                       Annotations |->
                           removePrivateItems(alert.Annotations, order.annotations),
                       StartsAt |-> alert.StartsAt,
                       EndsAt |-> alert.EndsAt,
                       GeneratorURL |-> alert.GeneratorURL,
                       Fingerprint |-> alert.Fingerprint,
                       SilenceURL |-> urls.SilenceURL,
                       DashboardURL |-> urls.DashboardURL,
                       PanelURL |-> urls.PanelURL]>>]

\* extendAlert: [err, alert], the pointer alert being <<>> (nil) or <<e>>;
\* order gives the visiting order of each of its three ranges over a map
\* (matchers, annotations, labels)
extendAlert(alert, externalURL, order) ==
    extendWith(alert, synthesize(alert, externalURL, order.matchers), order)

----------------------------------------------------------------------------
(* Inputs: the groups handed to ExtendData *)

EmptyKV == [k \in {} |-> <<>>]

\* labels of the example alert: the dashboard id is carried in the labels
LabelsExample ==
    (<<"a","l","e","r","t","n","a","m","e">> :> <<"T","e","s","t">>)
    @@ (<<"_","_","d","a","s","h","b","o","a","r","d","U","i","d","_","_">> :> <<"a","b","c">>)
    @@ (<<"s","e","v","e","r","i","t","y">> :> <<"h","i","g","h">>)

LabelsPlain ==
    (<<"a","l","e","r","t","n","a","m","e">> :> <<"T","e","s","t">>)
    @@ (<<"s","e","v","e","r","i","t","y">> :> <<"h","i","g","h">>)

\* "a-b=y" sorts before "a=x" although the key "a" sorts before "a-b"
LabelsDash ==
    (<<"a">> :> <<"x">>)
    @@ (<<"a","-","b">> :> <<"y">>)

\* "__" begins and ends with "__"; "__x" only begins with it
LabelsEdge ==
    (<<"_","_">> :> <<"x">>)
    @@ (<<"_","_","x">> :> <<"2">>)

AnnotationsPanel ==
    (<<"_","_","p","a","n","e","l","I","d","_","_">> :> <<"7">>)

\* "x__" only ends with "__"
AnnotationsDashboard ==
    (<<"_","_","d","a","s","h","b","o","a","r","d","U","i","d","_","_">> :> <<"a","b","c">>)
    @@ (<<"x","_","_">> :> <<"x"," ","y">>)

AnnotationsBoth ==
    (<<"_","_","d","a","s","h","b","o","a","r","d","U","i","d","_","_">> :> <<"a","b","c">>)
    @@ (<<"_","_","p","a","n","e","l","I","d","_","_">> :> <<"7">>)

\* an empty dashboard id beside a panel id
AnnotationsEmptyUid ==
    (<<"_","_","d","a","s","h","b","o","a","r","d","U","i","d","_","_">> :> <<>>)
    @@ (<<"_","_","p","a","n","e","l","I","d","_","_">> :> <<"7">>)

\* a dashboard id that path.Join resolves against the base path
AnnotationsDotDot ==
    (<<"_","_","d","a","s","h","b","o","a","r","d","U","i","d","_","_">> :> <<".", ".">>)
    @@ (<<"_","_","p","a","n","e","l","I","d","_","_">> :> <<"7">>)

Firing == "firing"

Resolved == "resolved"

MkAlert(status, labels, annotations, n) ==
    [Status |-> status, Labels |-> labels, Annotations |-> annotations,
     StartsAt |-> n, EndsAt |-> IF status = Resolved THEN n + 1 ELSE 0,
     GeneratorURL |-> <<"/", "g", "/">> \o <<Printable[n + 17]>>,
     Fingerprint |-> <<"f", Printable[n + 17]>>]

ExampleAlert == MkAlert(Firing, LabelsExample, AnnotationsPanel, 1)

AlertPool ==
    { ExampleAlert,
      MkAlert(Firing, LabelsPlain, AnnotationsBoth, 2),
      MkAlert(Resolved, LabelsPlain, AnnotationsDashboard, 3),
      MkAlert(Firing, LabelsDash, AnnotationsDotDot, 4),
      MkAlert(Resolved, LabelsEdge, AnnotationsEmptyUid, 5),
      MkAlert(Firing, EmptyKV, AnnotationsBoth, 6) }

ExampleURL == <<"h","t","t","p","s",":","/","/","e","x","a","m","p","l","e",".","c","o","m","/">>

URLSubPath == <<"h","t","t","p",":","/","/","g",".","i","o","/","s","u","b">>

URLNoPath == <<"h","t","t","p",":","/","/","g",".","i","o">>

URLQuery == <<"h","t","t","p",":","/","/","g",".","i","o","/","?","o","=","1">>

\* a control byte: "invalid control character in URL"
URLControl == <<"h","t","t","p",":","/","/","g",".","i","o","/","\t">>

\* "missing protocol scheme"
URLNoScheme == <<":","/","/","g",".","i","o">>

\* "first path segment in URL cannot contain colon"
URLColon == <<"1",".","2",":","3">>

\* "invalid port" after the host
URLBadPort == <<"h","t","t","p",":","/","/","g",".","i","o",":","x","/">>

\* "invalid character in host name"
URLBadHost == <<"h","t","t","p",":","/","/","g"," ","i","o","/">>

\* "invalid URL escape"
URLBadEscape == <<"h","t","t","p",":","/","/","g",".","i","o","/","%","z","z">>

\* user information, a path that is not its own default encoding, a fragment
URLUserRaw == <<"h","t","t","p",":","/","/","u","@","g",".","i","o","/","a","!","b","#","f">>

ExternalURLs ==
    { <<>>, ExampleURL, URLSubPath, URLNoPath, URLQuery, URLUserRaw,
      URLControl, URLNoScheme, URLColon, URLBadPort, URLBadHost, URLBadEscape }

\* group labels, common labels, common annotations
GroupMaps ==
    { <<EmptyKV, EmptyKV, EmptyKV>>,
      <<LabelsPlain, LabelsPlain, AnnotationsEmptyUid>>,
      <<LabelsExample, LabelsEdge, AnnotationsBoth>> }

AlertSeqs == UNION {[1..n -> AlertPool] : n \in 0..MaxAlerts}

Groups ==
    { [Receiver |-> <<"r">>, Status |-> Firing, Alerts |-> as,
       GroupLabels |-> g[1], CommonLabels |-> g[2], CommonAnnotations |-> g[3],
       ExternalURL |-> url] :
      as \in AlertSeqs, g \in GroupMaps, url \in ExternalURLs }

----------------------------------------------------------------------------
(* template_data.go: ExtendData *)

NoResult == [data |-> <<>>, err |-> Nil]

\* the partial slice handed back beside the error
errorReturnPartial(err) ==
    [data |-> <<[Receiver |-> data.Receiver, Status |-> data.Status, Alerts |-> alerts,
                 GroupLabels |-> data.GroupLabels, CommonLabels |-> data.CommonLabels,
                 CommonAnnotations |-> data.CommonAnnotations,
                 ExternalURL |-> data.ExternalURL]>>,
     err |-> err]

\* return nil, err
errorReturn(err) == [data |-> <<>>, err |-> err]

\* the new element put in front of the slice
prependAlert(slice, a) == <<a>> \o slice

\* alerts = append(alerts, *extendedAlert)
appendAlert(slice, a) == Append(slice, a)

\* one iteration of the loop over data.Alerts
ExtendLoop ==
    /\ pc = "loop"
    /\ idx <= Len(data.Alerts)
    /\ \E m \in Orders(DOMAIN data.Alerts[idx].Labels),
          a \in Orders(DOMAIN data.Alerts[idx].Annotations),
          l \in Orders(DOMAIN data.Alerts[idx].Labels) :
          \E r \in {extendAlert(data.Alerts[idx], data.ExternalURL,
                               [matchers |-> m, annotations |-> a, labels |-> l])} :
              IF r.err # Nil
              THEN /\ result' = errorReturn(r.err)
                   /\ pc' = "returned"
                   /\ UNCHANGED <<idx, alerts>>
              ELSE /\ alerts' = appendAlert(alerts, r.alert[1])
                   /\ idx' = idx + 1
                   /\ UNCHANGED <<pc, result>>
    /\ UNCHANGED <<data, tmplVars>>

\* after the loop: the ExtendedData is built and returned
ExtendReturn ==
    /\ pc = "loop"
    /\ idx > Len(data.Alerts)
    /\ \E cl \in Orders(DOMAIN data.CommonLabels),
          ca \in Orders(DOMAIN data.CommonAnnotations) :
          result' = [data |-> <<[Receiver |-> data.Receiver,
                                 Status |-> data.Status,
                                 Alerts |-> alerts,
                                 GroupLabels |-> data.GroupLabels,
                                 CommonLabels |-> removePrivateItems(data.CommonLabels, cl),
                                 CommonAnnotations |->
                                     removePrivateItems(data.CommonAnnotations, ca),
                                 ExternalURL |-> data.ExternalURL]>>,
                     err |-> Nil]
    /\ pc' = "returned"
    /\ UNCHANGED <<data, idx, alerts, tmplVars>>

----------------------------------------------------------------------------
(* template_data.go: the closure returned by TmplText *)

Goroutines == {1, 2}

TemplateNames == {"default.title", "default.message", "broken.title", "broken.message"}

FailingTemplates == {"broken.title", "broken.message"}

ErrorOf(name) == IF name = "broken.title" THEN "exec broken.title" ELSE "exec broken.message"

TextOf(name) == IF name = "default.title" THEN "title" ELSE "message"

\* what the engine had written when the execution failed
PartialOf(name) == IF name = "broken.title" THEN "" ELSE "mess"

\* tmpl.ExecuteTextString(name, data): the text and a nil error, or an error
ExecuteTextString(name) ==
    IF name \in FailingTemplates THEN [s |-> PartialOf(name), err |-> ErrorOf(name)]
    ELSE [s |-> TextOf(name), err |-> Nil]

Idle == [pc |-> "idle", name |-> "", s |-> "", err |-> Nil]

InFlight(t) == thr[t].pc # "idle"

\* a guard that never sees the slot set
slotNeverSet(slot) == FALSE

\* if *tmplErr != nil
slotSet(slot) == slot # Nil

\* a goroutine calls the closure and tests the slot; with the slot set the
\* call returns the empty string at once
Begin(t, name) ==
    /\ pc = "off"
    /\ thr[t].pc = "idle"
    /\ Len(calls) + Cardinality({u \in Goroutines : InFlight(u)}) < MaxCalls
    /\ serialized => \A u \in Goroutines : ~InFlight(u)
    /\ IF slotSet(tmplErr)
       THEN /\ calls' = Append(calls, [name |-> name, executed |-> FALSE, s |-> "",
                                        slot |-> tmplErr])
            /\ UNCHANGED thr
       ELSE /\ thr' = [thr EXCEPT ![t] = [Idle EXCEPT !.pc = "execute", !.name = name]]
            /\ UNCHANGED calls
    /\ UNCHANGED <<tmplErr, serialized, executions, extVars>>

\* the call of tmpl.ExecuteTextString
Execute(t) ==
    /\ thr[t].pc = "execute"
    /\ LET r == ExecuteTextString(thr[t].name)
       IN  /\ thr' = [thr EXCEPT ![t] = [@ EXCEPT !.pc = "store", !.s = r.s, !.err = r.err]]
           /\ executions' = Append(executions, [name |-> thr[t].name, err |-> r.err,
                                                slotBefore |-> tmplErr])
    /\ UNCHANGED <<tmplErr, serialized, calls, extVars>>

\* s, *tmplErr = ...; return s
Store(t) ==
    /\ thr[t].pc = "store"
    /\ tmplErr' = thr[t].err
    /\ calls' = Append(calls, [name |-> thr[t].name, executed |-> TRUE, s |-> thr[t].s,
                               slot |-> thr[t].err])
    /\ thr' = [thr EXCEPT ![t] = Idle]
    /\ UNCHANGED <<serialized, executions, extVars>>

----------------------------------------------------------------------------
(* Specifications *)

RenderOff ==
    /\ tmplErr = Nil
    /\ serialized = TRUE
    /\ thr = [t \in Goroutines |-> Idle]
    /\ calls = <<>>
    /\ executions = <<>>

\* ExtendData on every group of the input domain
InitExtend ==
    /\ data \in Groups
    /\ pc = "loop"
    /\ idx = 1
    /\ alerts = <<>>
    /\ result = NoResult
    /\ RenderOff

NextExtend == ExtendLoop \/ ExtendReturn

SpecExtend == InitExtend /\ [][NextExtend]_vars

\* the closure after TmplText returned it; the caller hands in the slot, nil or
\* already holding an error
InitRender ==
    /\ data = CHOOSE g \in Groups : g.Alerts = <<>> /\ g.ExternalURL = <<>>
                                    /\ g.GroupLabels = EmptyKV
    /\ pc = "off"
    /\ idx = 1
    /\ alerts = <<>>
    /\ result = NoResult
    /\ tmplErr \in {Nil, "earlier error"}
    /\ serialized \in BOOLEAN
    /\ thr = [t \in Goroutines |-> Idle]
    /\ calls = <<>>
    /\ executions = <<>>

NextRender ==
    \E t \in Goroutines :
        \/ \E name \in TemplateNames : Begin(t, name)
        \/ Execute(t)
        \/ Store(t)

SpecRender == InitRender /\ [][NextRender]_vars

----------------------------------------------------------------------------
(* Properties of ExtendData and extendAlert, checked under SpecExtend *)

Returned == pc = "returned"

Succeeded == Returned /\ result.err = Nil /\ Len(result.data) = 1

Out == result.data[1]

\* a key that begins with "__" and ends with "__", read off its characters
Marked(key) ==
    /\ Len(key) >= 2
    /\ key[1] = "_" /\ key[2] = "_"
    /\ key[Len(key) - 1] = "_" /\ key[Len(key)] = "_"

HasMarked(kv) == \E k \in DOMAIN kv : Marked(k)

\* out holds no marked key, and every other key of in with its value
Stripped(out, in) ==
    /\ \A k \in DOMAIN out : ~Marked(k)
    /\ \A k \in DOMAIN in : ~Marked(k) => (k \in DOMAIN out /\ out[k] = in[k])

AlertsStripped ==
    /\ Len(Out.Alerts) = Len(data.Alerts)
    /\ \A i \in 1..Len(Out.Alerts) :
          /\ Stripped(Out.Alerts[i].Labels, data.Alerts[i].Labels)
          /\ Stripped(Out.Alerts[i].Annotations, data.Alerts[i].Annotations)

\* C1 as stated: whenever ExtendData succeeds, every labels/annotations map of
\* the enriched group, GroupLabels among them, holds no private key and holds
\* every non-private key of the input map with its value.
C1_AllMapsStripped ==
    Succeeded =>
        /\ AlertsStripped
        /\ Stripped(Out.GroupLabels, data.GroupLabels)
        /\ Stripped(Out.CommonLabels, data.CommonLabels)
        /\ Stripped(Out.CommonAnnotations, data.CommonAnnotations)

\* C1 amended: whenever ExtendData succeeds, each alert's Labels and
\* Annotations, CommonLabels and CommonAnnotations hold no private key and hold
\* every non-private key of the input map with its value; GroupLabels is the
\* input map as given, its private keys included.
C1_MapsStrippedButGroupLabels ==
    Succeeded =>
        /\ AlertsStripped
        /\ Out.GroupLabels = data.GroupLabels
        /\ Stripped(Out.CommonLabels, data.CommonLabels)
        /\ Stripped(Out.CommonAnnotations, data.CommonAnnotations)

\* C1 witness: a group returned enriched whose alert labels, alert annotations,
\* group labels and common maps all carried private keys.
C1_Witness ==
    /\ Succeeded
    /\ \E i \in 1..Len(data.Alerts) :
          HasMarked(data.Alerts[i].Labels) /\ HasMarked(data.Alerts[i].Annotations)
    /\ HasMarked(data.GroupLabels)
    /\ HasMarked(data.CommonLabels)
    /\ HasMarked(data.CommonAnnotations)

BadURL == Len(data.ExternalURL) > 0 /\ ~urlParse(data.ExternalURL).ok

\* C2 as stated: for a non-empty base URL that fails to parse, whatever the
\* number of alerts, ExtendData returns an error and no enriched group; no
\* enriched group is ever returned together with an error.
C2_BadURLAlwaysFails ==
    /\ (Returned /\ BadURL) => (result.err # Nil /\ result.data = <<>>)
    /\ (Returned /\ result.err # Nil) => result.data = <<>>

\* C2 amended: for a group with at least one alert whose non-empty base URL
\* fails to parse, ExtendData returns the parse error and no enriched group,
\* and no enriched group is ever returned together with an error; a group
\* with no alerts is returned enriched without an error, its URL never parsed.
C2_BadURLFailsWithAlerts ==
    /\ (Returned /\ BadURL /\ Len(data.Alerts) >= 1) =>
           (result.err = ErrParse /\ result.data = <<>>)
    /\ (Returned /\ result.err # Nil) => result.data = <<>>
    /\ (Returned /\ Len(data.Alerts) = 0) => (result.err = Nil /\ Len(result.data) = 1)

\* C2 witness: a group of two alerts with a base URL that does not parse came
\* back with the error.
C2_Witness ==
    Returned /\ BadURL /\ Len(data.Alerts) = 2 /\ result.err # Nil

NoDerivedURLs(e) ==
    e.DashboardURL = <<>> /\ e.PanelURL = <<>> /\ e.SilenceURL = <<>>

\* C5: with an empty base URL extendAlert never fails and every enriched alert
\* has empty DashboardURL, PanelURL and SilenceURL, whatever its labels and
\* annotations.
C5_EmptyBaseNoURLs ==
    data.ExternalURL = <<>> =>
        /\ result.err = Nil
        /\ \A i \in 1..Len(alerts) : NoDerivedURLs(alerts[i])
        /\ Returned => (Len(Out.Alerts) = Len(data.Alerts)
                        /\ \A i \in 1..Len(Out.Alerts) : NoDerivedURLs(Out.Alerts[i]))

\* C5 witness: a group with an empty base URL was returned enriched, one of its
\* alerts carrying a dashboard id and a panel id.
C5_Witness ==
    /\ data.ExternalURL = <<>>
    /\ Succeeded
    /\ \E i \in 1..Len(data.Alerts) :
          /\ Get(data.Alerts[i].Annotations, DashboardUidKey) # <<>>
          /\ Get(data.Alerts[i].Annotations, PanelIdKey) # <<>>

\* C6: in every enriched alert PanelURL is non-empty only if DashboardURL is;
\* an alert with a panel id and no (or an empty) dashboard id annotation has an
\* empty PanelURL.
C6_PanelNeedsDashboard ==
    \A i \in 1..Len(alerts) :
        /\ alerts[i].PanelURL # <<>> => alerts[i].DashboardURL # <<>>
        /\ (Get(data.Alerts[i].Annotations, PanelIdKey) # <<>>
            /\ Get(data.Alerts[i].Annotations, DashboardUidKey) = <<>>)
           => alerts[i].PanelURL = <<>>

\* C6 witness: under a base URL that parses, one enriched alert came from a
\* panel id without a dashboard id and another has a panel URL.
C6_Witness ==
    /\ Len(data.ExternalURL) > 0
    /\ \E i \in 1..Len(alerts) :
          /\ Get(data.Alerts[i].Annotations, PanelIdKey) # <<>>
          /\ Get(data.Alerts[i].Annotations, DashboardUidKey) = <<>>
    /\ \E i \in 1..Len(alerts) : alerts[i].PanelURL # <<>>

\* the "key=value" strings of the labels whose key is not marked
MatcherSet(labels) ==
    {k \o <<"=">> \o labels[k] : k \in {x \in DOMAIN labels : ~Marked(x)}}

\* the one increasing arrangement of a set of strings
Increasing(set) ==
    CHOOSE seq \in Orders(set) :
        \A i \in 1..(Len(seq) - 1) : StrLess(seq[i], seq[i + 1])

\* the silence URL for a parsed base URL and a matcher list
SilenceFor(u, matchers) ==
    urlString([u EXCEPT
        !.Path = pathJoin(<<u.Path, <<"/","a","l","e","r","t","i","n","g","/","s","i","l","e","n","c","e","/","n","e","w">>>>),
        !.RawQuery = <<"a","l","e","r","t","m","a","n","a","g","e","r","=","g","r","a","f","a","n","a","&","m","a","t","c","h","e","r","s","=">>
                     \o QueryEscape(StringsJoin(matchers, <<",">>))])

\* C7: under a base URL that parses, the silence URL of every enriched alert
\* carries exactly the "key=value" strings of the non-private labels, in
\* increasing order, joined by commas; alerts with the same non-private labels
\* have the same silence URL, whatever the visiting order of the labels, the
\* private labels and the annotations.
C7_SilenceMatchersSorted ==
    (Len(data.ExternalURL) > 0 /\ ~BadURL) =>
        /\ \A i \in 1..Len(alerts) :
              alerts[i].SilenceURL =
                  SilenceFor(urlParse(data.ExternalURL).u,
                             Increasing(MatcherSet(data.Alerts[i].Labels)))
        /\ \A i, j \in 1..Len(alerts) :
              MatcherSet(data.Alerts[i].Labels) = MatcherSet(data.Alerts[j].Labels)
              => alerts[i].SilenceURL = alerts[j].SilenceURL

\* C7 witness: two enriched alerts with the same two non-private labels, one
\* of them with a private label besides, and with different annotations.
C7_Witness ==
    /\ Len(data.ExternalURL) > 0
    /\ \E i, j \in 1..Len(alerts) :
          /\ MatcherSet(data.Alerts[i].Labels) = MatcherSet(data.Alerts[j].Labels)
          /\ Cardinality(MatcherSet(data.Alerts[i].Labels)) = 2
          /\ HasMarked(data.Alerts[i].Labels)
          /\ ~HasMarked(data.Alerts[j].Labels)
          /\ data.Alerts[i].Annotations # data.Alerts[j].Annotations

\* C8: whenever ExtendData succeeds the enriched group has as many alerts as
\* the input and the i-th enriched alert has the status, fingerprint,
\* timestamps and generator URL of the i-th input alert; an empty input gives
\* an empty output.
C8_CountAndOrderKept ==
    Succeeded =>
        /\ Len(Out.Alerts) = Len(data.Alerts)
        /\ \A i \in 1..Len(Out.Alerts) :
              /\ Out.Alerts[i].Status = data.Alerts[i].Status
              /\ Out.Alerts[i].Fingerprint = data.Alerts[i].Fingerprint
              /\ Out.Alerts[i].StartsAt = data.Alerts[i].StartsAt
              /\ Out.Alerts[i].EndsAt = data.Alerts[i].EndsAt
              /\ Out.Alerts[i].GeneratorURL = data.Alerts[i].GeneratorURL

\* C8 witness: a group of two different alerts was returned enriched.
C8_Witness ==
    /\ Succeeded
    /\ Len(data.Alerts) = 2
    /\ data.Alerts[1].Fingerprint # data.Alerts[2].Fingerprint

ExampleDashboardURL ==
    <<"h","t","t","p","s",":","/","/","e","x","a","m","p","l","e",".","c","o","m","/",
      "d","/","a","b","c">>

ExamplePanelURL ==
    <<"h","t","t","p","s",":","/","/","e","x","a","m","p","l","e",".","c","o","m","/",
      "d","/","a","b","c","?","v","i","e","w","P","a","n","e","l","=","7">>

ExampleSilenceURL ==
    <<"h","t","t","p","s",":","/","/","e","x","a","m","p","l","e",".","c","o","m","/",
      "a","l","e","r","t","i","n","g","/","s","i","l","e","n","c","e","/","n","e","w",
      "?","a","l","e","r","t","m","a","n","a","g","e","r","=","g","r","a","f","a","n",
      "a","&","m","a","t","c","h","e","r","s","=","a","l","e","r","t","n","a","m","e",
      "%","3","D","T","e","s","t","%","2","C","s","e","v","e","r","i","t","y","%","3",
      "D","h","i","g","h">>

ExampleLabelKeys == {<<"a","l","e","r","t","n","a","m","e">>, <<"s","e","v","e","r","i","t","y">>}

\* the example alert under the example base URL has been extended
ExampleExtended(i) ==
    /\ data.ExternalURL = ExampleURL
    /\ i \in 1..Len(alerts)
    /\ data.Alerts[i] = ExampleAlert

\* C9 as stated: the example alert (dashboard id in the labels, panel id in
\* the annotations) under https://example.com/ gets the dashboard URL
\* https://example.com/d/abc, the panel URL https://example.com/d/abc?viewPanel=7,
\* the silence matchers alertname=Test,severity=high and the labels alertname
\* and severity only.
C9_ExampleAsStated ==
    \A i \in 1..Len(alerts) :
        ExampleExtended(i) =>
            /\ alerts[i].DashboardURL = ExampleDashboardURL
            /\ alerts[i].PanelURL = ExamplePanelURL
            /\ alerts[i].SilenceURL = ExampleSilenceURL
            /\ DOMAIN alerts[i].Labels = ExampleLabelKeys

\* C9 amended: the example alert under https://example.com/ gets an empty
\* dashboard URL and an empty panel URL (the dashboard id is read from the
\* annotations, which do not carry it), the silence matchers
\* alertname=Test,severity=high and the labels alertname and severity only.
C9_ExampleNoDashboard ==
    \A i \in 1..Len(alerts) :
        ExampleExtended(i) =>
            /\ alerts[i].DashboardURL = <<>>
            /\ alerts[i].PanelURL = <<>>
            /\ alerts[i].SilenceURL = ExampleSilenceURL
            /\ DOMAIN alerts[i].Labels = ExampleLabelKeys

\* C9 witness: the example alert has been extended under the example base URL.
C9_Witness == \E i \in 1..Len(alerts) : ExampleExtended(i)

----------------------------------------------------------------------------
(* Properties of the closure returned by TmplText, checked under SpecRender *)

\* the i-th finished call ran the engine and the engine failed
FailedCall(i) == calls[i].executed /\ calls[i].slot # Nil

\* the call finished by a step, if the step finished one
Finishes(c) == Len(calls') = Len(calls) + 1 /\ calls'[Len(calls')] = c

Skipped(c) == ~c.executed /\ c.s = ""

\* C3: with serialized calls, once the slot is non-nil every step leaves the
\* slot as it is and does not run the engine, and every call that finishes
\* returns the empty string without having run the engine.
C3_SetSlotSkipsEngine ==
    [][(serialized /\ tmplErr # Nil) =>
          /\ tmplErr' = tmplErr
          /\ executions' = executions
          /\ thr' = thr
          /\ calls' # calls => \E c \in {calls'[Len(calls')]} : Finishes(c) /\ Skipped(c)]_vars

\* C3 witness: serialized calls, the first ran the engine and failed, the two
\* after it were skipped and the slot still holds the first error.
C3_Witness ==
    /\ serialized
    /\ Len(calls) = 3
    /\ FailedCall(1)
    /\ Skipped(calls[2]) /\ Skipped(calls[3])
    /\ tmplErr = calls[1].slot

\* C4 as stated: with serialized calls, after a call whose template failed, a
\* later call naming another template is executed by the engine and returns
\* its rendered text, and the error stays in the slot.
C4_LaterCallsExecuted ==
    serialized =>
        \A i, j \in 1..Len(calls) :
            (i < j /\ FailedCall(i) /\ calls[j].name # calls[i].name) =>
                /\ calls[j].executed
                /\ calls[j].s = ExecuteTextString(calls[j].name).s
                /\ tmplErr = calls[i].slot

\* C4 amended: with serialized calls, after a call whose template failed, a
\* later call naming another template returns normally but is not executed by
\* the engine and returns the empty string, and the error of the failed call
\* stays in the slot.
C4_LaterCallsSkipped ==
    serialized =>
        \A i, j \in 1..Len(calls) :
            (i < j /\ FailedCall(i) /\ calls[j].name # calls[i].name) =>
                /\ Skipped(calls[j])
                /\ calls[j].slot = calls[i].slot
                /\ tmplErr = calls[i].slot

\* C4 witness: serialized calls, a failed call followed by a finished call
\* naming a template that renders.
C4_Witness ==
    /\ serialized
    /\ \E i, j \in 1..Len(calls) :
          /\ i < j
          /\ FailedCall(i)
          /\ calls[j].name \notin FailingTemplates

AllReturned == \A t \in Goroutines : ~InFlight(t)

\* an execution failed and the slot is nil after every call returned
LostError ==
    /\ AllReturned
    /\ \E e \in 1..Len(executions) : executions[e].err # Nil
    /\ tmplErr = Nil

\* the engine was invoked although the slot already held an error
ExecutedAfterCapture ==
    \E e \in 1..Len(executions) : executions[e].slotBefore # Nil

\* C10: with serialized calls no state is reachable in which a failure is lost
\* or the engine ran after an error was captured; with interleaved calls such
\* states are reachable.
C10_SerializedKeepsError ==
    serialized => (~LostError /\ ~ExecutedAfterCapture)

\* C10 witness: two interleaved calls have both returned, one execution failed,
\* the engine ran with the error already in the slot, and the slot is nil.
C10_Witness ==
    /\ ~serialized
    /\ Len(calls) = 2
    /\ LostError
    /\ ExecutedAfterCapture

=============================================================================
